---- MODULE Spec2Model ----
(***************************************************************************)
(* Model of the DII operator's normalization and hashing pipeline:         *)
(*   utils/email/normalize  validateEmail, normalizeEmail                  *)
(*   utils/phone/normalize  validatePhone, normalizePhone                  *)
(*   utils/hash/generate    generateSha256Hash, generateBase64Hash         *)
(*   utils/csv/process      detectValueType, processCSV                    *)
(* JavaScript strings are TLA+ strings; the character at index i of s is   *)
(* SubSeq(s, i, i).                                                        *)
(***************************************************************************)
EXTENDS Integers, Sequences, FiniteSets, TLC

VARIABLES
  pc,           \* processCSV: "idle", "awaiting" (at await file.text()), "settled"
  file,         \* processCSV: the contents file.text() resolves with
  text,         \* processCSV: the local text, Undefined until the await resolves
  rows,         \* processCSV: the local rows
  skippedRows,  \* processCSV: the local skippedRows
  settled,      \* processCSV: how the returned promise settled
  thrown,       \* processCSV: what the try block threw, Undefined when nothing
  phoneArg,     \* normalizePhone: the argument phone
  phonePc,      \* normalizePhone: "ready" or "returned"
  phoneRet,     \* normalizePhone: the value returned
  emailArg,     \* normalizeEmail: the argument email
  optionsArg,   \* normalizeEmail: the argument options, Undefined when not passed
  emailPc,      \* normalizeEmail: "ready" or "returned"
  emailRet,     \* normalizeEmail: the value returned
  detectArg,    \* detectValueType: the argument value
  detectPc,     \* detectValueType: "ready" or "returned"
  detectRet,    \* detectValueType: the value returned
  emailInput,   \* useEmailProcessor: the state email
  emailError,   \* useEmailProcessor: the state error
  emailResult,  \* useEmailProcessor: the state result
  phoneInput,   \* usePhoneProcessor: the state phoneNumber
  phoneError,   \* usePhoneProcessor: the state error
  phoneResult,  \* usePhoneProcessor: the state result
  lastOp,       \* the hook function that ran last, "mount" before any ran
  invocations,  \* processCSV: the locals and promise of each concurrent invocation
  isProcessing, \* BatchNormalizer: the state isProcessing
  batchError,   \* BatchNormalizer: the state error
  processedData, \* BatchNormalizer: the state processedData
  hashArg,      \* generateSha256Hash, generateBase64Hash: the argument value
  hashCalls,    \* generateSha256Hash, generateBase64Hash: calls made so far
  hashRet       \* generateSha256Hash, generateBase64Hash: what each call returned

csvVars == <<pc, file, text, rows, skippedRows, settled, thrown>>
phoneVars == <<phoneArg, phonePc, phoneRet>>
emailVars == <<emailArg, optionsArg, emailPc, emailRet>>
detectVars == <<detectArg, detectPc, detectRet>>
emailHookVars == <<emailInput, emailError, emailResult>>
phoneHookVars == <<phoneInput, phoneError, phoneResult>>
hookVars == <<emailHookVars, phoneHookVars, lastOp>>
invocationVars == <<invocations>>
batchVars == <<isProcessing, batchError, processedData>>
hashVars == <<hashArg, hashCalls, hashRet>>
vars == <<csvVars, phoneVars, emailVars, detectVars, hookVars, invocationVars, batchVars,
          hashVars>>

\* The JavaScript value undefined (a missing argument, a missing array element).
Undefined == [undefined |-> TRUE]

(***************************************************************************)
(* Strings                                                                 *)
(***************************************************************************)
Char(s, i) == SubSeq(s, i, i)

Digits == "0123456789"
LowerCase == "abcdefghijklmnopqrstuvwxyz"
UpperCase == "ABCDEFGHIJKLMNOPQRSTUVWXYZ"

CharsOf(s) == {Char(s, i) : i \in 1..Len(s)}

DigitChars == CharsOf(Digits)
AlphaChars == CharsOf(LowerCase) \cup CharsOf(UpperCase)
SpaceChars == {" ", "\t", "\r", "\n", "\f"}

\* \d
IsDigit(c) == c \in DigitChars
\* [a-zA-Z]
IsAlpha(c) == c \in AlphaChars
\* \s
IsSpace(c) == c \in SpaceChars

\* String.prototype.trim
trim(s) ==
  LET keep == {i \in 1..Len(s) : ~IsSpace(Char(s, i))}
  IN IF keep = {} THEN ""
     ELSE SubSeq(s, CHOOSE i \in keep : \A j \in keep : i <= j,
                    CHOOSE i \in keep : \A j \in keep : i >= j)

\* String.prototype.startsWith
startsWith(s, prefix) ==
  Len(s) >= Len(prefix) /\ SubSeq(s, 1, Len(prefix)) = prefix

\* String.prototype.slice(n), n counted from 0
slice(s, n) == SubSeq(s, n + 1, Len(s))

\* String.prototype.includes
includes(s, part) ==
  \E i \in 1..(Len(s) - Len(part) + 1) : SubSeq(s, i, i + Len(part) - 1) = part

\* String.prototype.split(sep) for a one-character separator: the pieces of
\* s[lo..hi] between the separators, by halving the range.
RECURSIVE SplitRange(_, _, _, _)
SplitRange(s, sep, lo, hi) ==
  IF lo > hi THEN <<"">>
  ELSE IF lo = hi
       THEN IF Char(s, lo) = sep THEN <<"", "">> ELSE <<Char(s, lo)>>
       ELSE LET mid == (lo + hi) \div 2
                L == SplitRange(s, sep, lo, mid)
                R == SplitRange(s, sep, mid + 1, hi)
            IN SubSeq(L, 1, Len(L) - 1) \o <<L[Len(L)] \o R[1]>> \o Tail(R)

split(s, sep) == SplitRange(s, sep, 1, Len(s))

\* String.prototype.replace(/[class]/g, ''): s without the characters in drop.
RECURSIVE RemoveChars(_, _)
RemoveChars(s, drop) ==
  IF s = "" THEN ""
  ELSE (IF Char(s, 1) \in drop THEN "" ELSE Char(s, 1))
       \o RemoveChars(slice(s, 1), drop)

LowerOf ==
  [c \in CharsOf(UpperCase) |->
     Char(LowerCase, CHOOSE i \in 1..Len(UpperCase) : Char(UpperCase, i) = c)]

ToLowerChar(c) == IF c \in DOMAIN LowerOf THEN LowerOf[c] ELSE c

\* String.prototype.toLowerCase
RECURSIVE toLowerCase(_)
toLowerCase(s) ==
  IF s = "" THEN "" ELSE ToLowerChar(Char(s, 1)) \o toLowerCase(slice(s, 1))

\* Number to decimal string, as a template literal renders it.
RECURSIVE ToDecimal(_)
ToDecimal(n) ==
  IF n < 10 THEN Char(Digits, n + 1)
  ELSE ToDecimal(n \div 10) \o Char(Digits, (n % 10) + 1)

(***************************************************************************)
(* utils/email/normalize                                                   *)
(***************************************************************************)
\* [a-zA-Z0-9._%+-]
IsLocalChar(c) == IsAlpha(c) \/ IsDigit(c) \/ c \in {".", "_", "%", "+", "-"}
\* [a-zA-Z0-9.-]
IsDomainChar(c) == IsAlpha(c) \/ IsDigit(c) \/ c \in {".", "-"}

\* /^[a-zA-Z0-9._%+-]+@[a-zA-Z0-9.-]+\.[a-zA-Z]{2,}$/.test(s): at is the index
\* of the '@' the pattern matches and dot the index of its '\.'.
emailRegexTest(s) ==
  \E at \in 2..Len(s) : \E dot \in (at + 2)..(Len(s) - 2) :
    /\ \A i \in 1..(at - 1) : IsLocalChar(Char(s, i))
    /\ Char(s, at) = "@"
    /\ \A i \in (at + 1)..(dot - 1) : IsDomainChar(Char(s, i))
    /\ Char(s, dot) = "."
    /\ \A i \in (dot + 1)..Len(s) : IsAlpha(Char(s, i))

validateEmail(email) ==
  IF email = "" THEN [isValid |-> FALSE, error |-> "Email address is required"]
  ELSE IF ~emailRegexTest(email)
       THEN [isValid |-> FALSE, error |-> "Please enter a valid email address"]
       ELSE [isValid |-> TRUE]

\* The default value of normalizeEmail's parameter options.
DefaultOptions ==
  [removeWhitespace |-> TRUE, convertToLowercase |-> TRUE,
   removeDots |-> TRUE, removePlusSign |-> TRUE]

\* if (options.flag): the property is present and true.
OptionSet(options, flag) == flag \in DOMAIN options /\ options[flag]

\* s without its first occurrence of c: replace(c, '') without the g flag.
RemoveFirst(s, c) ==
  LET at == {i \in 1..Len(s) : Char(s, i) = c}
      first == CHOOSE i \in at : \A j \in at : i <= j
  IN IF at = {} THEN s ELSE SubSeq(s, 1, first - 1) \o slice(s, first)

\* RewriteLocalPart removing only the first dot of the local part.
RewriteLocalPartFirstDot(normalized, options) ==
  LET parts == split(normalized, "@")
      localPart == parts[1]
      hasDomain == Len(parts) >= 2 /\ parts[2] # ""
      noDots == IF OptionSet(options, "removeDots")
                THEN RemoveFirst(localPart, ".") ELSE localPart
      noPlus == IF OptionSet(options, "removePlusSign")
                THEN split(noDots, "+")[1] ELSE noDots
  IN IF hasDomain THEN noPlus \o "@" \o parts[2] ELSE normalized

\* Lines 74-96: the split at '@' and the rewriting of the local part.
RewriteLocalPart(normalized, options) ==
  LET parts == split(normalized, "@")
      localPart == parts[1]
      hasDomain == Len(parts) >= 2 /\ parts[2] # ""
      noDots == IF OptionSet(options, "removeDots")
                THEN RemoveChars(localPart, {"."}) ELSE localPart
      noPlus == IF OptionSet(options, "removePlusSign")
                THEN split(noDots, "+")[1] ELSE noDots
  IN IF hasDomain THEN noPlus \o "@" \o parts[2] ELSE normalized

\* The parameter default: options is DefaultOptions only when the argument is
\* undefined; an object that is passed is used as it is.
EffectiveOptions(optionsGiven) ==
  IF optionsGiven = Undefined THEN DefaultOptions ELSE optionsGiven

normalizeEmail(email, optionsGiven) ==
  IF email = "" THEN ""
  ELSE LET options == EffectiveOptions(optionsGiven)
           noSpace == IF OptionSet(options, "removeWhitespace")
                      THEN RemoveChars(email, SpaceChars)
                      ELSE email
           lower == IF OptionSet(options, "convertToLowercase")
                    THEN toLowerCase(noSpace) ELSE noSpace
       IN RewriteLocalPart(lower, options)

(***************************************************************************)
(* utils/phone/normalize                                                   *)
(***************************************************************************)
\* phone.replace(/[\s\-\(\)]/g, '')
CleanPhone(phone) ==
  RemoveChars(phone, SpaceChars \cup {"-", "(", ")"})

\* /^\+?[1-9][0-9]{6,14}$/.test(cleaned)
phoneE164Test(cleaned) ==
  LET body == IF startsWith(cleaned, "+") THEN slice(cleaned, 1) ELSE cleaned
  IN /\ Len(body) >= 7
     /\ Len(body) <= 15
     /\ Char(body, 1) # "0"
     /\ \A i \in 1..Len(body) : IsDigit(Char(body, i))

validatePhone(phone) == phoneE164Test(CleanPhone(phone))

\* Lines 34-37: the Australian special case.
StripAustralianZero(digitsOnly) ==
  IF startsWith(digitsOnly, "61") /\ Len(digitsOnly) >= 3 /\ Char(digitsOnly, 3) = "0"
  THEN "61" \o slice(digitsOnly, 3)
  ELSE digitsOnly

\* normalizePhone with the national default of the batch tests' stand-in: ten
\* digits get the country code 1.
normalizePhoneDefaultingToUS(phone) ==
  IF phone = "" THEN ""
  ELSE LET cleaned == CleanPhone(phone)
           digitsOnly == IF startsWith(cleaned, "+") THEN slice(cleaned, 1) ELSE cleaned
       IN IF Len(digitsOnly) = 10 THEN "+1" \o digitsOnly
          ELSE "+" \o StripAustralianZero(digitsOnly)

normalizePhone(phone) ==
  IF phone = "" THEN ""
  ELSE LET cleaned == CleanPhone(phone)
           digitsOnly == IF startsWith(cleaned, "+") THEN slice(cleaned, 1) ELSE cleaned
       IN "+" \o StripAustralianZero(digitsOnly)

(***************************************************************************)
(* utils/hash/generate                                                     *)
(***************************************************************************)
\* The characters with codes 35..91 and 97..126, in code order.
Ascii35 ==
  "#$%&'()*+,-./0123456789:;<=>?@ABCDEFGHIJKLMNOPQRSTUVWXYZ["
Ascii97 ==
  "abcdefghijklmnopqrstuvwxyz{|}~"

IndexIn(table, c) == CHOOSE i \in 1..Len(table) : Char(table, i) = c

\* String.prototype.charCodeAt for the characters the inputs are made of.
CharCode ==
  [c \in {"\t", "\n", "\f", "\r", " ", "!", "]", "^", "_"}
         \cup CharsOf(Ascii35) \cup CharsOf(Ascii97) |->
     IF c = "\t" THEN 9
     ELSE IF c = "\n" THEN 10
     ELSE IF c = "\f" THEN 12
     ELSE IF c = "\r" THEN 13
     ELSE IF c = " " THEN 32
     ELSE IF c = "!" THEN 33
     ELSE IF c \in CharsOf(Ascii35) THEN 34 + IndexIn(Ascii35, c)
     ELSE IF c = "]" THEN 93
     ELSE IF c = "^" THEN 94
     ELSE IF c = "_" THEN 95
     ELSE 96 + IndexIn(Ascii97, c)]

RECURSIVE WeightedSum(_, _)
WeightedSum(value, i) ==
  IF i > Len(value) THEN 0
  ELSE CharCode[Char(value, i)] * (i + 16) + WeightedSum(value, i + 1)

\* CryptoJS.SHA256(value): the digest, 32 bytes. The library's compression
\* function is outside the repository; the digest here is a fixed function of
\* the value's characters and length with the same shape (32 bytes, each 0..255).
SHA256(value) ==
  LET sum == WeightedSum(value, 1)
      len == Len(value)
  IN [i \in 1..32 |-> (sum * (2 * i + 1) + 7 * i * i + len) % 256]

HexDigits == "0123456789abcdef"

\* hash.toString(CryptoJS.enc.Hex): two lowercase hex digits per byte.
HexByte ==
  [b \in 0..255 |-> Char(HexDigits, (b \div 16) + 1) \o Char(HexDigits, (b % 16) + 1)]

RECURSIVE HexStringify(_)
HexStringify(bytes) ==
  IF bytes = <<>> THEN ""
  ELSE HexByte[Head(bytes)] \o HexStringify(Tail(bytes))

Base64Map == "ABCDEFGHIJKLMNOPQRSTUVWXYZabcdefghijklmnopqrstuvwxyz0123456789+/"

Base64Table == [sextet \in 0..63 |-> Char(Base64Map, sextet + 1)]

Base64Char(sextet) == Base64Table[sextet]

\* CryptoJS.enc.Base64.stringify(hash): four characters per three bytes, the
\* last group padded with '='.
RECURSIVE Base64Stringify(_)
Base64Stringify(bytes) ==
  IF bytes = <<>> THEN ""
  ELSE IF Len(bytes) = 1
  THEN Base64Char(bytes[1] \div 4) \o Base64Char((bytes[1] % 4) * 16) \o "=="
  ELSE IF Len(bytes) = 2
  THEN Base64Char(bytes[1] \div 4)
       \o Base64Char((bytes[1] % 4) * 16 + (bytes[2] \div 16))
       \o Base64Char((bytes[2] % 16) * 4) \o "="
  ELSE Base64Char(bytes[1] \div 4)
       \o Base64Char((bytes[1] % 4) * 16 + (bytes[2] \div 16))
       \o Base64Char((bytes[2] % 16) * 4 + (bytes[3] \div 64))
       \o Base64Char(bytes[3] % 64)
       \o Base64Stringify(SubSeq(bytes, 4, Len(bytes)))

\* generateSha256Hash without the early return for an empty value.
generateSha256HashUnguarded(value) == HexStringify(SHA256(value))

generateSha256Hash(value) ==
  IF value = "" THEN "" ELSE HexStringify(SHA256(value))

generateBase64Hash(value) ==
  IF value = "" THEN "" ELSE Base64Stringify(SHA256(value))

(***************************************************************************)
(* utils/csv/process                                                       *)
(***************************************************************************)
MAX_RECORDS == 10000

\* A value of type string | null or string | undefined that holds a string.
Str(s) == [str |-> s]
Null == [null |-> TRUE]

\* /^[+\d\s\-()]+$/.test(s)
phoneRegexTest(s) ==
  /\ Len(s) >= 1
  /\ \A i \in 1..Len(s) :
       IsDigit(Char(s, i)) \/ IsSpace(Char(s, i)) \/ Char(s, i) \in {"+", "-", "(", ")"}

\* detectValueType testing the value as passed, without trimming it.
detectValueTypeUntrimmed(value) ==
  IF validateEmail(value).isValid THEN "email"
  ELSE IF phoneRegexTest(value) THEN "phone"
  ELSE "unknown"

\* Lines 55-75.
detectValueType(value) ==
  LET trimmed == trim(value)
  IN IF validateEmail(trimmed).isValid THEN "email"
     ELSE IF phoneRegexTest(trimmed) THEN "phone"
     ELSE "unknown"

\* NonBlankLines dropping the empty lines only, without trimming.
NonBlankLinesUntrimmed(t) ==
  SelectSeq(split(t, "\n"), LAMBDA line : Len(line) > 0)

\* Lines 103-106: the trimmed, non-empty lines of the text.
NonBlankLines(t) ==
  LET raw == split(t, "\n")
      trimmed == [i \in 1..Len(raw) |-> trim(raw[i])]
  IN SelectSeq(trimmed, LAMBDA line : Len(line) > 0)

\* NormalizeValue validating and normalizing the trimmed value.
NormalizeValueTrimmed(value) ==
  LET type == detectValueType(value)
  IN IF type = "email"
     THEN IF validateEmail(trim(value)).isValid
          THEN Str(normalizeEmail(trim(value), Undefined)) ELSE Null
     ELSE IF type = "phone" THEN Str(normalizePhone(trim(value)))
     ELSE Null

\* Lines 126-137: the local normalized for the first value of a line.
NormalizeValue(value) ==
  LET type == detectValueType(value)
  IN IF type = "email"
     THEN IF validateEmail(value).isValid
          THEN Str(normalizeEmail(value, Undefined)) ELSE Null
     ELSE IF type = "phone" THEN Str(normalizePhone(value))
     ELSE Null

\* MakeRow hashing the original value instead of the normalized one.
MakeRowHashingOriginal(original, normalized) ==
  [original |-> original, normalized |-> normalized,
   sha256 |-> generateSha256Hash(original),
   base64 |-> generateBase64Hash(original)]

\* Lines 142-147: the row pushed for a value and its normalized form.
MakeRow(original, normalized) ==
  [original |-> original, normalized |-> normalized,
   sha256 |-> generateSha256Hash(normalized),
   base64 |-> generateBase64Hash(normalized)]

\* ProcessLine counting a line with an empty first value as skipped.
ProcessLineCountingEmpty(line) ==
  LET values == split(line, ",")
      normalized == NormalizeValue(values[1])
  IN IF values[1] # "" /\ normalized # Null /\ normalized.str # ""
     THEN [kind |-> "push", row |-> MakeRow(values[1], normalized.str)]
     ELSE [kind |-> "skip"]

\* ProcessLine passing over a value of unknown type without counting it.
ProcessLineDroppingUnknown(line) ==
  LET values == split(line, ",")
      normalized == NormalizeValue(values[1])
  IN IF values[1] = "" \/ detectValueType(values[1]) = "unknown"
     THEN [kind |-> "continue"]
     ELSE IF normalized # Null /\ normalized.str # ""
          THEN [kind |-> "push", row |-> MakeRow(values[1], normalized.str)]
          ELSE [kind |-> "skip"]

\* ProcessLine taking the last value of the line instead of the first.
ProcessLineOfLastValue(line) ==
  LET values == split(line, ",")
      last == values[Len(values)]
      normalized == NormalizeValue(last)
  IN IF last = "" THEN [kind |-> "continue"]
     ELSE IF normalized # Null /\ normalized.str # ""
          THEN [kind |-> "push", row |-> MakeRow(last, normalized.str)]
          ELSE [kind |-> "skip"]

\* Lines 117-150: one iteration of the loop. "continue" leaves rows and
\* skippedRows alone, "push" appends row, "skip" increments skippedRows.
ProcessLine(line) ==
  LET values == split(line, ",")
      normalized == NormalizeValue(values[1])
  IN IF values[1] = "" THEN [kind |-> "continue"]
     ELSE IF normalized # Null /\ normalized.str # ""
          THEN [kind |-> "push", row |-> MakeRow(values[1], normalized.str)]
          ELSE [kind |-> "skip"]

\* RunLoop putting each new row in front of the earlier ones.
RunLoopPrepending(lines) ==
  LET done == [i \in 1..Len(lines) |-> ProcessLine(lines[i])]
      pushed == SelectSeq(done, LAMBDA d : d.kind = "push")
  IN [rows |-> [i \in 1..Len(pushed) |-> pushed[Len(pushed) + 1 - i].row],
      skippedRows |-> Len(SelectSeq(done, LAMBDA d : d.kind = "skip"))]

\* Lines 115-151: rows and skippedRows after the loop over lines.
RunLoop(lines) ==
  LET done == [i \in 1..Len(lines) |-> ProcessLine(lines[i])]
      pushed == SelectSeq(done, LAMBDA d : d.kind = "push")
  IN [rows |-> [i \in 1..Len(pushed) |-> pushed[i].row],
      skippedRows |-> Len(SelectSeq(done, LAMBDA d : d.kind = "skip"))]

\* new Error(message)
Error(message) == [isError |-> TRUE, message |-> message]

\* CatchAndWrap taking every thrown value for a value that is no Error.
CatchAndWrapAsUnknown(error) ==
  Error("Error processing CSV file: " \o "Unknown error occurred")

\* Lines 159-165: the catch block, which rethrows what the try block threw.
CatchAndWrap(error) ==
  LET errorMessage == IF error.isError THEN error.message
                      ELSE "Unknown error occurred"
  IN Error("Error processing CSV file: " \o errorMessage)

\* ExceedsLimit with the comparison off by one.
ExceedsLimitInclusive(lines) == Len(lines) >= MAX_RECORDS

\* Lines 110-112: whether the line-limit error is thrown.
ExceedsLimit(lines) == Len(lines) > MAX_RECORDS

LimitError == Error("File exceeds maximum record limit of " \o ToDecimal(MAX_RECORDS))

Headers == <<"Input", "Normalized", "SHA256", "Base64">>

(***************************************************************************)
(* Inputs                                                                  *)
(***************************************************************************)
MaxLines == 2
MaxPhoneTokens == 4
MaxEmailTokens == 5

RECURSIVE Join(_, _)
Join(pieces, sep) ==
  IF pieces = <<>> THEN ""
  ELSE IF Len(pieces) = 1 THEN pieces[1]
  ELSE pieces[1] \o sep \o Join(Tail(pieces), sep)

TuplesUpTo(S, n) == UNION {[1..k -> S] : k \in 0..n}

RECURSIVE Repeat(_, _)
Repeat(s, n) ==
  IF n = 0 THEN ""
  ELSE LET half == Repeat(s, n \div 2)
       IN IF n % 2 = 0 THEN half \o half ELSE half \o half \o s

\* The text between two newlines of an uploaded file.
RawLines ==
  {"", "  ", ",x", "invalid",
   "a@b.co", "A.b+c@D.co,z", "a@b.co ,x",
   "1234567890", "(123) 456-78901,y", "123", "()", "1234567890123456"}

\* Files of up to MaxLines lines, and files at and one over the record limit.
SmallTexts == {Join(ls, "\n") : ls \in TuplesUpTo(RawLines, MaxLines)}
BigTexts ==
  {Repeat(unit, n) : unit \in {"x\n", " \nx,y\n"}, n \in {MAX_RECORDS, MAX_RECORDS + 1}}
Files == SmallTexts \cup BigTexts

\* What file.text() may reject with: an Error, or a value that is no Error.
ReadErrors == {Error("The file could not be read"), [isError |-> FALSE]}

PhoneTokens == {"+", "61", "0", "2345", " ", "-", "(", ")"}
PhoneInputs == {Join(ts, "") : ts \in TuplesUpTo(PhoneTokens, MaxPhoneTokens)}

EmailTokens == {"a", "B", ".", "+", "@", " "}
EmailInputs == {Join(ts, "") : ts \in TuplesUpTo(EmailTokens, MaxEmailTokens)}

Flags == {"removeWhitespace", "convertToLowercase", "removeDots", "removePlusSign"}
\* The options objects a caller can pass: each flag true, false or left out.
OptionObjects == UNION {[given -> BOOLEAN] : given \in SUBSET Flags}
OptionEmails == {" A.b+c@D.co", "a.B @x.y", "A+b", "a@b"}

(***************************************************************************)
(* processCSV                                                              *)
(***************************************************************************)
CsvIdle ==
  /\ pc = "idle"
  /\ file = ""
  /\ text = Undefined
  /\ rows = <<>>
  /\ skippedRows = 0
  /\ settled = [status |-> "pending"]
  /\ thrown = Undefined

PhoneIdle == phoneArg = "" /\ phonePc = "ready" /\ phoneRet = ""

EmailIdle ==
  emailArg = "" /\ optionsArg = Undefined /\ emailPc = "ready" /\ emailRet = ""

DetectIdle == detectArg = "" /\ detectPc = "ready" /\ detectRet = ""

\* part_007 lines 104-120 and 249-265: the initial values of the useState calls.
EmptyEmailResult == [normalizedEmail |-> "", sha256Hash |-> "", base64Hash |-> ""]
EmptyPhoneResult == [normalizedPhone |-> "", sha256Hash |-> "", base64Hash |-> ""]
HooksMounted ==
  /\ emailInput = "" /\ emailError = "" /\ emailResult = EmptyEmailResult
  /\ phoneInput = "" /\ phoneError = "" /\ phoneResult = EmptyPhoneResult
  /\ lastOp = "mount"

MaxInvocations == 2
Invocations == 1..MaxInvocations

\* process.ts lines 90-98: an invocation that has not been made.
IdleInvocation ==
  [pc |-> "idle", file |-> "", text |-> Undefined, rows |-> <<>>, skippedRows |-> 0,
   settled |-> [status |-> "pending"], thrown |-> Undefined]

NoInvocations == invocations = [c \in Invocations |-> IdleInvocation]

\* part_000 lines 213-220: the initial values of the useState calls.
BatchMounted == isProcessing = FALSE /\ batchError = Null /\ processedData = Null

HashIdle == hashArg = "" /\ hashCalls = 0 /\ hashRet = <<>>

Init ==
  /\ CsvIdle /\ PhoneIdle /\ EmailIdle /\ DetectIdle /\ HooksMounted
  /\ NoInvocations /\ BatchMounted /\ HashIdle

\* Lines 90-102: processCSV(file) up to the await of file.text().
Call(f) ==
  /\ pc = "idle"
  /\ pc' = "awaiting"
  /\ file' = f
  /\ text' = Undefined
  /\ rows' = <<>>
  /\ skippedRows' = 0
  /\ settled' = [status |-> "pending"]
  /\ thrown' = Undefined
  /\ UNCHANGED <<phoneVars, emailVars, detectVars, hookVars, invocationVars, batchVars, hashVars>>

\* Lines 102-165: file.text() resolves and processCSV runs to its end.
TextResolves ==
  /\ pc = "awaiting"
  /\ pc' = "settled"
  /\ text' = Str(file)
  /\ LET lines == NonBlankLines(file)
         after == RunLoop(lines)
     IN IF ExceedsLimit(lines)
        THEN /\ UNCHANGED <<rows, skippedRows>>
             /\ thrown' = LimitError
             /\ settled' = [status |-> "rejected", reason |-> CatchAndWrap(LimitError)]
        ELSE /\ rows' = after.rows
             /\ thrown' = Undefined
             /\ skippedRows' = after.skippedRows
             /\ settled' = [status |-> "fulfilled",
                            value |-> [headers |-> Headers, rows |-> after.rows,
                                       skippedRows |-> after.skippedRows]]
  /\ UNCHANGED <<file, phoneVars, emailVars, detectVars, hookVars, invocationVars, batchVars, hashVars>>

\* Lines 102, 159-165: file.text() rejects and the catch block rethrows.
TextRejects(error) ==
  /\ pc = "awaiting"
  /\ pc' = "settled"
  /\ thrown' = error
  /\ settled' = [status |-> "rejected", reason |-> CatchAndWrap(error)]
  /\ UNCHANGED <<file, text, rows, skippedRows, phoneVars, emailVars, detectVars, hookVars, invocationVars, batchVars, hashVars>>

Next ==
  \/ \E f \in Files : Call(f)
  \/ TextResolves
  \/ \E error \in ReadErrors : TextRejects(error)

Spec == Init /\ [][Next]_vars

(***************************************************************************)
(* normalizePhone applied to one input                                     *)
(***************************************************************************)
PhoneInit ==
  /\ CsvIdle /\ EmailIdle /\ DetectIdle /\ HooksMounted
  /\ NoInvocations /\ BatchMounted /\ HashIdle
  /\ phoneArg \in PhoneInputs
  /\ phonePc = "ready"
  /\ phoneRet = ""

CallNormalizePhone ==
  /\ phonePc = "ready"
  /\ phonePc' = "returned"
  /\ phoneRet' = normalizePhone(phoneArg)
  /\ UNCHANGED <<phoneArg, csvVars, emailVars, detectVars, hookVars, invocationVars, batchVars, hashVars>>

PhoneNext == CallNormalizePhone

SpecPhone == PhoneInit /\ [][PhoneNext]_vars

(***************************************************************************)
(* normalizeEmail applied to one input                                     *)
(***************************************************************************)
CallNormalizeEmail ==
  /\ emailPc = "ready"
  /\ emailPc' = "returned"
  /\ emailRet' = normalizeEmail(emailArg, optionsArg)
  /\ UNCHANGED <<emailArg, optionsArg, csvVars, phoneVars, detectVars, hookVars, invocationVars, batchVars, hashVars>>

EmailNext == CallNormalizeEmail

\* Called without an options argument.
EmailInit ==
  /\ CsvIdle /\ PhoneIdle /\ DetectIdle /\ HooksMounted
  /\ NoInvocations /\ BatchMounted /\ HashIdle
  /\ emailArg \in EmailInputs
  /\ optionsArg = Undefined
  /\ emailPc = "ready"
  /\ emailRet = ""

SpecEmail == EmailInit /\ [][EmailNext]_vars

\* Called with or without an options object.
EmailOptionsInit ==
  /\ CsvIdle /\ PhoneIdle /\ DetectIdle /\ HooksMounted
  /\ NoInvocations /\ BatchMounted /\ HashIdle
  /\ emailArg \in OptionEmails
  /\ optionsArg \in {Undefined} \cup OptionObjects
  /\ emailPc = "ready"
  /\ emailRet = ""

SpecEmailOptions == EmailOptionsInit /\ [][EmailNext]_vars

(***************************************************************************)
(* Properties of processCSV, checked under Spec                            *)
(***************************************************************************)
Fulfilled == pc = "settled" /\ settled.status = "fulfilled"
Rejected == pc = "settled" /\ settled.status = "rejected"
TextWasRead == pc = "settled" /\ text # Undefined

\* The text before the first comma of a line.
FirstField(line) == split(line, ",")[1]

\* The digits of s, in order.
RECURSIVE DigitsOf(_)
DigitsOf(s) ==
  IF s = "" THEN ""
  ELSE (IF IsDigit(Char(s, 1)) THEN Char(s, 1) ELSE "") \o DigitsOf(slice(s, 1))

NonEmptyFirstFields(lines) == {i \in 1..Len(lines) : FirstField(lines[i]) # ""}

\* C1, as stated: whenever processCSV returns, rows.length + skippedRows is the
\* number of non-blank lines of the input, lines with an empty first field
\* included.
C1_RowsPlusSkippedCountsEveryLine ==
  Fulfilled =>
    Len(settled.value.rows) + settled.value.skippedRows = Len(NonBlankLines(file))

\* C1, amended: whenever processCSV returns, rows.length + skippedRows is the
\* number of non-blank lines whose text before the first comma is not empty.
C1_RowsPlusSkippedCountsNonEmptyFirstFields ==
  Fulfilled =>
    Len(settled.value.rows) + settled.value.skippedRows
      = Cardinality(NonEmptyFirstFields(NonBlankLines(file)))

\* A returned batch with a line that was pushed or skipped and a line whose
\* first field is empty.
C1_Witness ==
  /\ Fulfilled
  /\ Len(settled.value.rows) + settled.value.skippedRows >= 1
  /\ \E i \in 1..Len(NonBlankLines(file)) : FirstField(NonBlankLines(file)[i]) = ""

\* C2: once the text is read, processCSV rejects exactly when it has more than
\* 10000 non-blank lines; the rejection message contains "10000", no line has
\* been processed (rows is empty, skippedRows is 0) and no data is returned.
C2_RejectsExactlyAboveLimit ==
  TextWasRead =>
    /\ Rejected <=> Len(NonBlankLines(text.str)) > 10000
    /\ Rejected =>
         /\ includes(settled.reason.message, "10000")
         /\ rows = <<>>
         /\ skippedRows = 0
         /\ "value" \notin DOMAIN settled
    /\ Fulfilled => Len(NonBlankLines(text.str)) <= 10000

\* A rejected call on a text of exactly 10001 non-blank lines.
C2_Witness ==
  /\ TextWasRead
  /\ Rejected
  /\ Len(NonBlankLines(text.str)) = 10001

\* C3, as stated: the line-limit error reaches the caller without the prefix
\* "Error processing CSV file: " (a rejection after the text was read is the
\* line-limit error).
C3_LimitErrorIsNotWrapped ==
  (TextWasRead /\ Rejected) =>
    ~startsWith(settled.reason.message, "Error processing CSV file: ")

\* C4, as stated: a row whose original is classified as phone has normalized
\* "+1" followed by its digits when there are exactly 10 of them, and "+"
\* followed by its digits otherwise.
C4_TenDigitPhoneGetsPlusOne ==
  Fulfilled =>
    \A i \in 1..Len(settled.value.rows) :
      LET row == settled.value.rows[i]
          digits == DigitsOf(row.original)
      IN detectValueType(row.original) = "phone" =>
           row.normalized = (IF Len(digits) = 10 THEN "+1" ELSE "+") \o digits

\* C5, as stated: no row comes from a line whose first field is classified as
\* phone and has fewer than 10 or more than 15 digits.
C5_OutOfRangePhoneGivesNoRow ==
  Fulfilled =>
    \A i \in 1..Len(settled.value.rows) :
      LET row == settled.value.rows[i]
      IN detectValueType(row.original) = "phone" =>
           (Len(DigitsOf(row.original)) >= 10 /\ Len(DigitsOf(row.original)) <= 15)

\* The characters of s as bytes.
BytesOf(s) == [i \in 1..Len(s) |-> CharCode[Char(s, i)]]

\* C6: every returned row has a non-empty normalized, sha256 is the hex form of
\* the digest of normalized and base64 is the Base64 form of the same digest
\* bytes, not of the hex string.
C6_RowHashesAreOfNormalized ==
  Fulfilled =>
    \A i \in 1..Len(settled.value.rows) :
      LET row == settled.value.rows[i]
      IN /\ row.normalized # ""
         /\ row.sha256 = HexStringify(SHA256(row.normalized))
         /\ row.base64 = Base64Stringify(SHA256(row.normalized))
         /\ row.base64 # Base64Stringify(BytesOf(row.sha256))

\* A returned row whose normalized value differs from its original.
C6_Witness ==
  /\ Fulfilled
  /\ \E i \in 1..Len(settled.value.rows) :
       settled.value.rows[i].normalized # settled.value.rows[i].original

(***************************************************************************)
(* Properties of normalizePhone, checked under SpecPhone                   *)
(***************************************************************************)
\* C7, as stated, for the inputs validatePhone accepts: normalizing the value
\* normalizePhone returned gives that value again.
C7_NormalizePhoneIsIdempotent ==
  (phonePc = "returned" /\ validatePhone(phoneArg)) =>
    normalizePhone(phoneRet) = phoneRet

(***************************************************************************)
(* Properties of normalizeEmail, checked under SpecEmail                   *)
(***************************************************************************)
CountChar(s, c) == Cardinality({i \in 1..Len(s) : Char(s, i) = c})

\* C8: without an options argument, normalizing the value normalizeEmail
\* returned gives that value again.
C8_NormalizeEmailIsIdempotent ==
  (emailPc = "returned" /\ optionsArg = Undefined) =>
    normalizeEmail(emailRet, Undefined) = emailRet

\* A call that changed an input with several '@' and with a '.' and a '+'
\* before the first of them.
C8_Witness ==
  /\ emailPc = "returned"
  /\ optionsArg = Undefined
  /\ CountChar(emailArg, "@") >= 2
  /\ includes(split(emailArg, "@")[1], "+")
  /\ includes(split(emailArg, "@")[1], ".")
  /\ emailRet # emailArg
  /\ emailRet # ""

\* The options object in which each flag is true unless the caller set it.
FlagsDefaultingToTrue(optionsGiven) ==
  [flag \in Flags |->
     IF optionsGiven # Undefined /\ flag \in DOMAIN optionsGiven
     THEN optionsGiven[flag] ELSE TRUE]

\* C9, as stated (checked under SpecEmailOptions): normalizeEmail treats every
\* flag the caller did not set as true, also when an options object is passed.
C9_UnsetFlagsAreTrue ==
  emailPc = "returned" =>
    emailRet = normalizeEmail(emailArg, FlagsDefaultingToTrue(optionsArg))

\* C10, as stated, for the inputs with text between their first two '@': for
\* an input with more than one '@', the result is the rewritten local part,
\* '@', and everything after the first '@'.
C10_WholeDomainIsKept ==
  (/\ emailPc = "returned"
   /\ optionsArg = Undefined
   /\ CountChar(emailArg, "@") > 1
   /\ split(RemoveChars(emailArg, SpaceChars), "@")[2] # "") =>
    LET clean == toLowerCase(RemoveChars(emailArg, SpaceChars))
        first == CHOOSE i \in 1..Len(clean) :
                   Char(clean, i) = "@" /\ \A j \in 1..(i - 1) : Char(clean, j) # "@"
        localPart == SubSeq(clean, 1, first - 1)
        domain == slice(clean, first)
    IN emailRet = split(RemoveChars(localPart, {"."}), "+")[1] \o "@" \o domain

\* The index of the first '@' of s, 0 when s has none.
FirstAt(s) ==
  IF includes(s, "@")
  THEN CHOOSE i \in 1..Len(s) :
         Char(s, i) = "@" /\ \A j \in 1..(i - 1) : Char(s, j) # "@"
  ELSE 0

\* C11, as stated: without an options argument and for an input with text
\* after its first '@', the result is the local part without its '.' and cut
\* at its first '+', then '@', then everything after the first '@' with only
\* whitespace removed and letters lowercased, whatever the domain is.
C11_LocalPartRewrittenDomainUntouched ==
  LET clean == toLowerCase(RemoveChars(emailArg, SpaceChars))
      first == FirstAt(clean)
      localPart == SubSeq(clean, 1, first - 1)
      domain == slice(clean, first)
  IN (/\ emailPc = "returned"
      /\ optionsArg = Undefined
      /\ first > 0
      /\ domain # "") =>
       emailRet = split(RemoveChars(localPart, {"."}), "+")[1] \o "@" \o domain

IsE164(s) ==
  /\ Len(s) >= 8
  /\ Len(s) <= 16
  /\ Char(s, 1) = "+"
  /\ Char(s, 2) # "0"
  /\ \A i \in 2..Len(s) : IsDigit(Char(s, i))

\* C13, as stated: for every input validatePhone accepts, normalizePhone
\* returns '+' followed by 7 to 15 digits whose first is not '0', a number
\* validatePhone accepts as well.
C13_ValidInputGivesE164 ==
  (phonePc = "returned" /\ validatePhone(phoneArg)) =>
    (IsE164(phoneRet) /\ validatePhone(phoneRet))

(***************************************************************************)
(* detectValueType applied to one input                                    *)
(***************************************************************************)
MaxDetectTokens == 3
DetectTokens == {"a@b.co", "12", "+", " ", "(", ")", "-", "x"}
DetectInputs == {Join(ts, "") : ts \in TuplesUpTo(DetectTokens, MaxDetectTokens)}

DetectInit ==
  /\ CsvIdle /\ PhoneIdle /\ EmailIdle /\ HooksMounted
  /\ NoInvocations /\ BatchMounted /\ HashIdle
  /\ detectArg \in DetectInputs
  /\ detectPc = "ready"
  /\ detectRet = ""

CallDetectValueType ==
  /\ detectPc = "ready"
  /\ detectPc' = "returned"
  /\ detectRet' = detectValueType(detectArg)
  /\ UNCHANGED <<detectArg, csvVars, phoneVars, emailVars, hookVars, invocationVars, batchVars, hashVars>>

DetectNext == CallDetectValueType

SpecDetect == DetectInit /\ [][DetectNext]_vars

\* s without its leading and trailing whitespace.
RECURSIVE Trimmed(_)
Trimmed(s) ==
  IF s = "" THEN ""
  ELSE IF IsSpace(Char(s, 1)) THEN Trimmed(SubSeq(s, 2, Len(s)))
  ELSE IF IsSpace(Char(s, Len(s))) THEN Trimmed(SubSeq(s, 1, Len(s) - 1))
  ELSE s

\* C14: detectValueType(v) is "email" exactly when trim(v) passes
\* validateEmail; otherwise it is "phone" exactly when trim(v) is not empty
\* and has only digits, '+', whitespace, '-', '(' and ')'; otherwise it is
\* "unknown", as it is for the empty and the whitespace-only string.
C14_DetectsEmailThenPhone ==
  detectPc = "returned" =>
    LET t == Trimmed(detectArg)
        isEmail == validateEmail(t).isValid
        isPhone == /\ t # ""
                   /\ \A i \in 1..Len(t) :
                        Char(t, i) \in DigitChars \cup SpaceChars \cup {"+", "-", "(", ")"}
    IN /\ detectRet = "email" <=> isEmail
       /\ detectRet = "phone" <=> (~isEmail /\ isPhone)
       /\ detectRet = "unknown" <=> (~isEmail /\ ~isPhone)
       /\ t = "" => detectRet = "unknown"

\* An email detected although the value has whitespace around it.
C14_Witness ==
  /\ detectPc = "returned"
  /\ detectRet = "email"
  /\ Trimmed(detectArg) # detectArg

(***************************************************************************)
(* hooks: useEmailProcessor and usePhoneProcessor                          *)
(***************************************************************************)
\* utils/hash/generate lines 41-66.
generateEmailHashes(normalizedEmail) ==
  IF normalizedEmail = "" THEN EmptyEmailResult
  ELSE [normalizedEmail |-> normalizedEmail,
        sha256Hash |-> generateSha256Hash(normalizedEmail),
        base64Hash |-> generateBase64Hash(normalizedEmail)]

HexValue == [c \in CharsOf(HexDigits) |-> IndexIn(HexDigits, c) - 1]

\* Buffer.from(hex, 'hex'): one byte per two hex digits.
BufferFromHex(hex) ==
  [i \in 1..(Len(hex) \div 2) |->
     16 * HexValue[Char(hex, 2 * i - 1)] + HexValue[Char(hex, 2 * i)]]

\* generatePhoneHashes encoding the characters of the hex string, as
\* Buffer.from(sha256Hash) without the 'hex' argument would.
generatePhoneHashesOfHexText(normalizedPhone) ==
  LET sha256Hash == HexStringify(SHA256(normalizedPhone))
  IN [normalizedPhone |-> normalizedPhone,
      sha256Hash |-> sha256Hash,
      base64Hash |-> Base64Stringify(BytesOf(sha256Hash))]

\* usePhoneProcessor lines 127-139. createHash('sha256').update(v).digest('hex')
\* is the hex form of the SHA-256 digest of v.
generatePhoneHashes(normalizedPhone) ==
  LET sha256Hash == HexStringify(SHA256(normalizedPhone))
  IN [normalizedPhone |-> normalizedPhone,
      sha256Hash |-> sha256Hash,
      base64Hash |-> Base64Stringify(BufferFromHex(sha256Hash))]

\* What the input fields are set to.
EmailHookInputs == {"", "a@b.co", "A.b+c@D.co", "invalid", "a@b"}
PhoneHookInputs == {"", "+1 (234) 567-8901", "61002345", "123", "0123456789"}

PhoneFormatError ==
  "Please enter a phone number in the E.164 format, which is the "
  \o "international phone number format that ensures global uniqueness."

\* setEmail(value), from the input's onChange.
SetEmail(value) ==
  /\ emailInput' = value
  /\ lastOp' = "setEmail"
  /\ UNCHANGED <<emailError, emailResult, phoneHookVars, csvVars, phoneVars, emailVars,
                 detectVars, invocationVars, batchVars, hashVars>>

\* processEmail that also resets the result when validation fails.
ProcessEmailClearingOnError ==
  /\ lastOp' = "processEmail"
  /\ IF emailInput = ""
     THEN UNCHANGED emailHookVars
     ELSE LET validationResult == validateEmail(emailInput)
          IN IF ~validationResult.isValid
             THEN /\ emailError' = validationResult.error
                  /\ emailResult' = EmptyEmailResult
                  /\ UNCHANGED emailInput
             ELSE /\ emailError' = ""
                  /\ emailResult' = generateEmailHashes(normalizeEmail(emailInput, Undefined))
                  /\ UNCHANGED emailInput
  /\ UNCHANGED <<phoneHookVars, csvVars, phoneVars, emailVars, detectVars, invocationVars, batchVars, hashVars>>

\* useEmailProcessor lines 274-296.
ProcessEmail ==
  /\ lastOp' = "processEmail"
  /\ IF emailInput = ""
     THEN UNCHANGED emailHookVars
     ELSE LET validationResult == validateEmail(emailInput)
          IN IF ~validationResult.isValid
             THEN /\ emailError' = (IF "error" \in DOMAIN validationResult
                                       /\ validationResult.error # ""
                                    THEN validationResult.error
                                    ELSE "Invalid email address")
                  /\ UNCHANGED <<emailInput, emailResult>>
             ELSE /\ emailError' = ""
                  /\ emailResult' = generateEmailHashes(normalizeEmail(emailInput, Undefined))
                  /\ UNCHANGED emailInput
  /\ UNCHANGED <<phoneHookVars, csvVars, phoneVars, emailVars, detectVars, invocationVars, batchVars, hashVars>>

\* clearResults of useEmailProcessor that leaves the error in place.
ClearEmailResultsKeepingError ==
  /\ emailInput' = ""
  /\ emailResult' = EmptyEmailResult
  /\ lastOp' = "clearEmail"
  /\ UNCHANGED <<emailError, phoneHookVars, csvVars, phoneVars, emailVars, detectVars, invocationVars, batchVars, hashVars>>

\* useEmailProcessor lines 304-312.
ClearEmailResults ==
  /\ emailInput' = ""
  /\ emailError' = ""
  /\ emailResult' = EmptyEmailResult
  /\ lastOp' = "clearEmail"
  /\ UNCHANGED <<phoneHookVars, csvVars, phoneVars, emailVars, detectVars, invocationVars, batchVars, hashVars>>

\* setPhoneNumber(value), from the input's onChange.
SetPhoneNumber(value) ==
  /\ phoneInput' = value
  /\ lastOp' = "setPhoneNumber"
  /\ UNCHANGED <<phoneError, phoneResult, emailHookVars, csvVars, phoneVars, emailVars,
                 detectVars, invocationVars, batchVars, hashVars>>

\* processPhone without the early return for an empty phoneNumber.
ProcessPhoneUnguarded ==
  /\ lastOp' = "processPhone"
  /\ IF ~validatePhone(phoneInput)
     THEN /\ phoneError' = PhoneFormatError
          /\ UNCHANGED <<phoneInput, phoneResult>>
     ELSE /\ phoneError' = ""
          /\ phoneResult' = generatePhoneHashes(normalizePhone(phoneInput))
          /\ UNCHANGED phoneInput
  /\ UNCHANGED <<emailHookVars, csvVars, phoneVars, emailVars, detectVars, invocationVars, batchVars, hashVars>>

\* usePhoneProcessor lines 147-170.
ProcessPhone ==
  /\ lastOp' = "processPhone"
  /\ IF phoneInput = ""
     THEN UNCHANGED phoneHookVars
     ELSE IF ~validatePhone(phoneInput)
     THEN /\ phoneError' = PhoneFormatError
          /\ UNCHANGED <<phoneInput, phoneResult>>
     ELSE /\ phoneError' = ""
          /\ phoneResult' = generatePhoneHashes(normalizePhone(phoneInput))
          /\ UNCHANGED phoneInput
  /\ UNCHANGED <<emailHookVars, csvVars, phoneVars, emailVars, detectVars, invocationVars, batchVars, hashVars>>

\* clearResults of usePhoneProcessor resetting only normalizedPhone.
ClearPhoneResultsKeepingHashes ==
  /\ phoneInput' = ""
  /\ phoneError' = ""
  /\ phoneResult' = [phoneResult EXCEPT !.normalizedPhone = ""]
  /\ lastOp' = "clearPhone"
  /\ UNCHANGED <<emailHookVars, csvVars, phoneVars, emailVars, detectVars, invocationVars,
                 batchVars, hashVars>>

\* usePhoneProcessor lines 178-186.
ClearPhoneResults ==
  /\ phoneInput' = ""
  /\ phoneError' = ""
  /\ phoneResult' = EmptyPhoneResult
  /\ lastOp' = "clearPhone"
  /\ UNCHANGED <<emailHookVars, csvVars, phoneVars, emailVars, detectVars, invocationVars, batchVars, hashVars>>

HooksNext ==
  \/ \E value \in EmailHookInputs : SetEmail(value)
  \/ ProcessEmail
  \/ ClearEmailResults
  \/ \E value \in PhoneHookInputs : SetPhoneNumber(value)
  \/ ProcessPhone
  \/ ClearPhoneResults

SpecHooks == Init /\ [][HooksNext]_vars

(***************************************************************************)
(* Properties of the hooks, checked under SpecHooks                        *)
(***************************************************************************)
\* C15: in both hooks, process() on a non-empty input that fails validation
\* stores a non-empty error and leaves the stored result and the input as
\* they were.
C15_FailedProcessKeepsResult ==
  [][/\ (lastOp' = "processEmail" /\ emailInput # ""
           /\ ~validateEmail(emailInput).isValid) =>
          (emailError' # "" /\ emailResult' = emailResult /\ emailInput' = emailInput)
     /\ (lastOp' = "processPhone" /\ phoneInput # "" /\ ~validatePhone(phoneInput)) =>
          (phoneError' # "" /\ phoneResult' = phoneResult /\ phoneInput' = phoneInput)]_vars

\* Both hooks show an error next to the result of an earlier successful
\* process(), the phone hook's process() having just failed.
C15_Witness ==
  /\ lastOp = "processPhone"
  /\ phoneInput # "" /\ ~validatePhone(phoneInput)
  /\ phoneError # "" /\ phoneResult.normalizedPhone # ""
  /\ emailInput # "" /\ ~validateEmail(emailInput).isValid
  /\ emailError # "" /\ emailResult.normalizedEmail # ""

\* C16: in both hooks, process() on a non-empty input that passes validation
\* sets error to "" and result to the normalized input, the hex form of its
\* SHA-256 digest and the Base64 form of the same digest bytes, whatever was
\* stored before.
C16_SuccessfulProcessStoresHashes ==
  [][/\ (lastOp' = "processEmail" /\ emailInput # ""
           /\ validateEmail(emailInput).isValid) =>
          LET normalized == normalizeEmail(emailInput, Undefined)
          IN /\ emailError' = ""
             /\ emailResult' = [normalizedEmail |-> normalized,
                                sha256Hash |-> HexStringify(SHA256(normalized)),
                                base64Hash |-> Base64Stringify(SHA256(normalized))]
     /\ (lastOp' = "processPhone" /\ phoneInput # "" /\ validatePhone(phoneInput)) =>
          LET normalized == normalizePhone(phoneInput)
          IN /\ phoneError' = ""
             /\ phoneResult' = [normalizedPhone |-> normalized,
                                sha256Hash |-> HexStringify(SHA256(normalized)),
                                base64Hash |-> Base64Stringify(SHA256(normalized))]]_vars

\* Both hooks hold the result of a successful process() on a value that
\* normalization changed, the email hook's process() having just succeeded.
C16_Witness ==
  /\ lastOp = "processEmail"
  /\ validateEmail(emailInput).isValid
  /\ emailError = ""
  /\ emailResult.normalizedEmail \notin {"", emailInput}
  /\ Len(emailResult.sha256Hash) = 64
  /\ validatePhone(phoneInput)
  /\ phoneError = ""
  /\ phoneResult.normalizedPhone \notin {"", phoneInput}
  /\ Len(phoneResult.base64Hash) = 44

\* C17: in both hooks, process() with an empty input changes neither the
\* input nor the error nor the result.
C17_EmptyProcessIsNoOp ==
  [][/\ (lastOp' = "processEmail" /\ emailInput = "") => UNCHANGED emailHookVars
     /\ (lastOp' = "processPhone" /\ phoneInput = "") => UNCHANGED phoneHookVars]_vars

\* process() has just run on an empty phone input while an error and a result
\* were stored, and the email hook is in the same situation.
C17_Witness ==
  /\ lastOp = "processPhone"
  /\ phoneInput = "" /\ phoneError # "" /\ phoneResult # EmptyPhoneResult
  /\ emailInput = "" /\ emailError # "" /\ emailResult # EmptyEmailResult

\* C18: in both hooks, after clear() the input is "", the error is "" and the
\* three fields of the result are "", whatever ran before.
C18_ClearRestoresInitialState ==
  /\ lastOp = "clearEmail" =>
       /\ emailInput = "" /\ emailError = ""
       /\ emailResult = [normalizedEmail |-> "", sha256Hash |-> "", base64Hash |-> ""]
  /\ lastOp = "clearPhone" =>
       /\ phoneInput = "" /\ phoneError = ""
       /\ phoneResult = [normalizedPhone |-> "", sha256Hash |-> "", base64Hash |-> ""]

\* The email hook has just been cleared, the phone hook still holds an input,
\* an error and a result.
C18_Witness ==
  /\ lastOp = "clearEmail"
  /\ emailInput = "" /\ emailError = "" /\ emailResult = EmptyEmailResult
  /\ phoneInput # "" /\ phoneError # "" /\ phoneResult # EmptyPhoneResult

(***************************************************************************)
(* Further properties of processCSV, checked under Spec                    *)
(***************************************************************************)
\* A first field that gives a row: it is not empty and has a non-empty
\* normalized form.
GivesRow(field) ==
  /\ field # ""
  /\ NormalizeValue(field) # Null
  /\ NormalizeValue(field).str # ""

\* C19: the original values of the returned rows are, in input order, the
\* first fields of the non-blank lines that give a row: one row per such
\* line, duplicates kept, nothing reordered or merged.
C19_RowsInInputOrder ==
  Fulfilled =>
    LET lines == NonBlankLines(file)
        fields == [i \in 1..Len(lines) |-> FirstField(lines[i])]
        originals == [i \in 1..Len(settled.value.rows) |-> settled.value.rows[i].original]
    IN originals = SelectSeq(fields, GivesRow)

\* Two rows with different originals, the first of them from the first line.
C19_Witness ==
  /\ Fulfilled
  /\ Len(settled.value.rows) >= 2
  /\ Len(NonBlankLines(file)) >= 2
  /\ settled.value.rows[1].original = FirstField(NonBlankLines(file)[1])
  /\ settled.value.rows[1].original # settled.value.rows[2].original

\* The pieces lo..hi joined by newlines.
RECURSIVE JoinLines(_, _, _)
JoinLines(pieces, lo, hi) ==
  IF lo > hi THEN ""
  ELSE IF lo = hi THEN pieces[lo]
  ELSE LET mid == (lo + hi) \div 2
       IN JoinLines(pieces, lo, mid) \o "\n" \o JoinLines(pieces, mid + 1, hi)

IsBlank(line) == \A i \in 1..Len(line) : IsSpace(Char(line, i))

\* The text t without its blank and whitespace-only lines.
WithoutBlankLines(t) ==
  LET kept == SelectSeq(split(t, "\n"), LAMBDA line : ~IsBlank(line))
  IN JoinLines(kept, 1, Len(kept))

\* The text t with the line blank inserted before each of its lines and after
\* the last.
WithBlankLines(t, blank) ==
  LET raw == split(t, "\n")
      padded == [i \in 1..(2 * Len(raw) + 1) |->
                   IF i % 2 = 1 THEN blank ELSE raw[i \div 2]]
  IN JoinLines(padded, 1, Len(padded))

\* What processCSV gives for the text t: the rows and skippedRows it returns,
\* or that it rejects.
Outcome(t) ==
  LET lines == NonBlankLines(t)
  IN IF ExceedsLimit(lines) THEN [status |-> "rejected"]
     ELSE [status |-> "fulfilled", rows |-> RunLoop(lines).rows,
           skippedRows |-> RunLoop(lines).skippedRows]

BlankLines == {"", " \t"}

\* C20: the rows and skippedRows processCSV returns, and whether it rejects
\* for the line limit, are those of the same text with every blank and
\* whitespace-only line removed and those of the same text with such lines
\* inserted around every line.
C20_BlankLinesChangeNothing ==
  TextWasRead =>
    LET here == IF Fulfilled
                THEN [status |-> "fulfilled", rows |-> settled.value.rows,
                      skippedRows |-> settled.value.skippedRows]
                ELSE [status |-> "rejected"]
    IN /\ Outcome(WithoutBlankLines(file)) = here
       /\ \A blank \in BlankLines : Outcome(WithBlankLines(file, blank)) = here

\* A returned batch whose text has a whitespace-only line and a line that gave
\* a row or was skipped.
C20_Witness ==
  /\ Fulfilled
  /\ \E i \in 1..Len(split(file, "\n")) :
       split(file, "\n")[i] # "" /\ IsBlank(split(file, "\n")[i])
  /\ WithoutBlankLines(file) # file
  /\ Len(settled.value.rows) + settled.value.skippedRows >= 1

\* The line with the text after its first comma replaced by tail; a line
\* without a comma has no such text and stays as it is.
WithTail(line, tail) ==
  IF includes(line, ",") THEN FirstField(line) \o "," \o tail ELSE line

\* The text t with the text after the first comma of every line replaced.
WithTails(t, tail) ==
  LET raw == split(t, "\n")
      changed == [i \in 1..Len(raw) |-> WithTail(raw[i], tail)]
  IN JoinLines(changed, 1, Len(changed))

Tails == {"", "x", "7654321,q"}

\* C21: the rows and skippedRows processCSV returns, and whether it rejects
\* for the line limit, are those of the same text with the text after the
\* first comma of every line replaced by any other text.
C21_OnlyFirstFieldMatters ==
  TextWasRead =>
    LET here == IF Fulfilled
                THEN [status |-> "fulfilled", rows |-> settled.value.rows,
                      skippedRows |-> settled.value.skippedRows]
                ELSE [status |-> "rejected"]
    IN \A tail \in Tails : Outcome(WithTails(file, tail)) = here

\* A returned batch with a row from a line that has text after its first
\* comma.
C21_Witness ==
  /\ Fulfilled
  /\ \E i \in 1..Len(NonBlankLines(file)) :
       /\ includes(NonBlankLines(file)[i], ",")
       /\ NonBlankLines(file)[i] # FirstField(NonBlankLines(file)[i]) \o ","
       /\ GivesRow(FirstField(NonBlankLines(file)[i]))
  /\ \E tail \in Tails : WithTails(file, tail) # file

\* The lines whose first field is not empty and is classified as type.
LinesOfType(lines, type) ==
  {i \in 1..Len(lines) :
     FirstField(lines[i]) # "" /\ detectValueType(FirstField(lines[i])) = type}

\* C22: once the text is read and has at most 10000 non-blank lines,
\* processCSV resolves; no row comes from a first field classified "unknown",
\* and skippedRows counts each line with such a non-empty field exactly once,
\* next to the email lines whose field fails validation.
C22_UnknownIsSkippedNotAnError ==
  (TextWasRead /\ Len(NonBlankLines(file)) <= 10000) =>
    LET lines == NonBlankLines(file)
        failedEmails == {i \in LinesOfType(lines, "email") :
                           ~validateEmail(FirstField(lines[i])).isValid}
    IN /\ Fulfilled
       /\ \A i \in 1..Len(settled.value.rows) :
            detectValueType(settled.value.rows[i].original) # "unknown"
       /\ settled.value.skippedRows
            = Cardinality(LinesOfType(lines, "unknown")) + Cardinality(failedEmails)

\* A returned batch with a row and a skipped line of unknown type.
C22_Witness ==
  /\ Fulfilled
  /\ Len(settled.value.rows) >= 1
  /\ settled.value.skippedRows = 1
  /\ Cardinality(LinesOfType(NonBlankLines(file), "unknown")) = 1

\* C23: when the read of the file rejects, processCSV rejects with an Error
\* whose message is "Error processing CSV file: " followed by the message of
\* what the read rejected with, or by "Unknown error occurred" when that is no
\* Error; no data is returned, and a settled call never settles again.
C23_FailureIsWrappedOnce ==
  /\ [](pc = "settled" /\ text = Undefined =>
          /\ thrown # Undefined
          /\ settled.status = "rejected"
          /\ settled.reason.isError
          /\ settled.reason.message
               = "Error processing CSV file: "
                 \o (IF thrown.isError THEN thrown.message ELSE "Unknown error occurred")
          /\ DOMAIN settled = {"status", "reason"})
  /\ [][settled.status # "pending" => settled' = settled]_vars

\* A call whose read rejected with an Error, and its message.
C23_Witness ==
  /\ pc = "settled"
  /\ text = Undefined
  /\ thrown = Error("The file could not be read")
  /\ settled.status = "rejected"
  /\ settled.reason.message = "Error processing CSV file: The file could not be read"

(***************************************************************************)
(* processCSV invoked concurrently                                         *)
(***************************************************************************)
\* A text with a row and a skipped line, one with blank lines and trailing
\* fields, one with two rows.
ConcurrentFiles ==
  {"a@b.co\ninvalid", "1234567890,y\n\n()", "A.b+c@D.co\n7654321"}

\* EnterInvocation with rows and skippedRows declared outside the function:
\* the invocation starts from what the other invocations left in them.
EnterInvocationSharingLocals(c, f) ==
  LET others == {d \in Invocations : d # c /\ invocations[d].pc = "settled"}
      left == IF others = {} THEN IdleInvocation
              ELSE invocations[CHOOSE d \in others : TRUE]
  IN [pc |-> "awaiting", file |-> f, text |-> Undefined, rows |-> left.rows,
      skippedRows |-> left.skippedRows, settled |-> [status |-> "pending"],
      thrown |-> Undefined]

\* Lines 90-102: invocation c of processCSV(f) up to the await of file.text();
\* rows and skippedRows are locals of the invocation.
EnterInvocation(c, f) ==
  [pc |-> "awaiting", file |-> f, text |-> Undefined, rows |-> <<>>,
   skippedRows |-> 0, settled |-> [status |-> "pending"], thrown |-> Undefined]

\* Lines 102-165: file.text() of the invocation resolves and it runs to its
\* end, pushing onto its rows and adding to its skippedRows.
ResumeInvocation(inv) ==
  LET lines == NonBlankLines(inv.file)
      after == RunLoop(lines)
      rowsAfter == inv.rows \o after.rows
      skippedAfter == inv.skippedRows + after.skippedRows
  IN IF ExceedsLimit(lines)
     THEN [inv EXCEPT !.pc = "settled", !.text = Str(inv.file), !.thrown = LimitError,
                      !.settled = [status |-> "rejected",
                                   reason |-> CatchAndWrap(LimitError)]]
     ELSE [inv EXCEPT !.pc = "settled", !.text = Str(inv.file),
                      !.rows = rowsAfter, !.skippedRows = skippedAfter,
                      !.settled = [status |-> "fulfilled",
                                   value |-> [headers |-> Headers, rows |-> rowsAfter,
                                              skippedRows |-> skippedAfter]]]

\* Lines 102, 159-165: file.text() of the invocation rejects.
FailInvocation(inv, error) ==
  [inv EXCEPT !.pc = "settled", !.thrown = error,
              !.settled = [status |-> "rejected", reason |-> CatchAndWrap(error)]]

Invoke(c, f) ==
  /\ invocations[c].pc # "awaiting"
  /\ invocations' = [invocations EXCEPT ![c] = EnterInvocation(c, f)]
  /\ UNCHANGED <<csvVars, phoneVars, emailVars, detectVars, hookVars, batchVars, hashVars>>

InvocationResolves(c) ==
  /\ invocations[c].pc = "awaiting"
  /\ invocations' = [invocations EXCEPT ![c] = ResumeInvocation(invocations[c])]
  /\ UNCHANGED <<csvVars, phoneVars, emailVars, detectVars, hookVars, batchVars, hashVars>>

InvocationRejects(c, error) ==
  /\ invocations[c].pc = "awaiting"
  /\ invocations' = [invocations EXCEPT ![c] = FailInvocation(invocations[c], error)]
  /\ UNCHANGED <<csvVars, phoneVars, emailVars, detectVars, hookVars, batchVars, hashVars>>

ConcurrentNext ==
  \/ \E c \in Invocations, f \in ConcurrentFiles : Invoke(c, f)
  \/ \E c \in Invocations : InvocationResolves(c)
  \/ \E c \in Invocations, error \in ReadErrors : InvocationRejects(c, error)

SpecConcurrent == Init /\ [][ConcurrentNext]_vars

\* What processCSV(f) settles with when it is the only invocation and the
\* read resolves.
AloneResult(f) ==
  IF ExceedsLimit(NonBlankLines(f))
  THEN [status |-> "rejected", reason |-> CatchAndWrap(LimitError)]
  ELSE [status |-> "fulfilled",
        value |-> [headers |-> Headers, rows |-> RunLoop(NonBlankLines(f)).rows,
                   skippedRows |-> RunLoop(NonBlankLines(f)).skippedRows]]

\* C24: under every interleaving of the invocations, an invocation settles
\* with what processCSV gives for its file when run alone (or with the wrapped
\* error of its own read), and a step of one invocation leaves the locals and
\* the promise of every other invocation as they were.
C24_InvocationsAreIndependent ==
  /\ [](\A c \in Invocations :
          invocations[c].pc = "settled" =>
            invocations[c].settled
              = IF invocations[c].text = Undefined
                THEN [status |-> "rejected",
                      reason |-> CatchAndWrap(invocations[c].thrown)]
                ELSE AloneResult(invocations[c].file))
  /\ [][\A c, d \in Invocations :
          (c # d /\ invocations'[c] # invocations[c]) => invocations'[d] = invocations[d]]_vars

\* An invocation is awaiting its read while another, started before or after
\* it, has returned rows.
C24_Witness ==
  \E c, d \in Invocations :
    /\ invocations[c].pc = "awaiting"
    /\ invocations[d].pc = "settled"
    /\ invocations[d].settled.status = "fulfilled"
    /\ Len(invocations[d].rows) >= 1
    /\ invocations[c].file # invocations[d].file

(***************************************************************************)
(* generateSha256Hash and generateBase64Hash applied to one input          *)
(***************************************************************************)
MaxHashTokens == 3
MaxHashCalls == 2
HashTokens == {"a", "B", "@", ".", "+1", " "}
HashInputs == {Join(ts, "") : ts \in TuplesUpTo(HashTokens, MaxHashTokens)}

HashInit ==
  /\ CsvIdle /\ PhoneIdle /\ EmailIdle /\ DetectIdle /\ HooksMounted
  /\ NoInvocations /\ BatchMounted
  /\ hashArg \in HashInputs
  /\ hashCalls = 0
  /\ hashRet = <<>>

\* One more call of each of the two functions on the same value.
CallHashes ==
  /\ hashCalls < MaxHashCalls
  /\ hashCalls' = hashCalls + 1
  /\ hashRet' = Append(hashRet, [sha256 |-> generateSha256Hash(hashArg),
                                 base64 |-> generateBase64Hash(hashArg)])
  /\ UNCHANGED <<hashArg, csvVars, phoneVars, emailVars, detectVars, hookVars,
                 invocationVars, batchVars>>

HashNext == CallHashes

SpecHash == HashInit /\ [][HashNext]_vars

\* C25: each of the two functions returns "" exactly when the value is
\* empty; otherwise generateSha256Hash returns 64 characters from 0-9 and a-f
\* and generateBase64Hash returns 44 characters of the Base64 alphabet, and
\* every call on the same value returns the same.
C25_HashShapeAndDeterminism ==
  \A i \in 1..Len(hashRet) :
    /\ hashRet[i].sha256 = "" <=> hashArg = ""
    /\ hashRet[i].base64 = "" <=> hashArg = ""
    /\ hashArg # "" =>
         /\ Len(hashRet[i].sha256) = 64
         /\ \A k \in 1..64 : Char(hashRet[i].sha256, k) \in CharsOf("0123456789abcdef")
         /\ Len(hashRet[i].base64) = 44
         /\ \A k \in 1..44 :
              Char(hashRet[i].base64, k) \in DigitChars \cup AlphaChars \cup {"+", "/", "="}
    /\ \A j \in 1..Len(hashRet) : hashRet[j] = hashRet[i]

\* Two calls on a non-empty value.
C25_Witness ==
  /\ hashArg # ""
  /\ Len(hashRet) >= 2
  /\ hashRet[1].sha256 # ""
  /\ hashRet[2].base64 # ""

\* How many of the lines have the first field field.
LinesWithField(lines, field) ==
  Cardinality({i \in 1..Len(lines) : FirstField(lines[i]) = field})

\* C26: a row whose original is classified "email" has an original that
\* itself, untrimmed, passes validateEmail; a line whose first field is
\* classified "email" on its trimmed form but fails validateEmail as it
\* stands (a valid email followed by whitespace before the comma) gives no row
\* and is counted in skippedRows.
C26_EmailIsRevalidatedUntrimmed ==
  Fulfilled =>
    LET lines == NonBlankLines(file)
        failing == {i \in 1..Len(lines) :
                      /\ detectValueType(FirstField(lines[i])) = "email"
                      /\ ~validateEmail(FirstField(lines[i])).isValid}
    IN /\ \A i \in 1..Len(settled.value.rows) :
            detectValueType(settled.value.rows[i].original) = "email" =>
              validateEmail(settled.value.rows[i].original).isValid
       /\ \A i \in failing :
            /\ validateEmail(Trimmed(FirstField(lines[i]))).isValid
            /\ \A k \in 1..Len(settled.value.rows) :
                 settled.value.rows[k].original # FirstField(lines[i])
       /\ settled.value.skippedRows >= Cardinality(failing)

\* A returned batch in which the line "a@b.co ,x" was skipped next to a line
\* that gave a row.
C26_Witness ==
  /\ Fulfilled
  /\ LinesWithField(NonBlankLines(file), "a@b.co ") = 1
  /\ settled.value.skippedRows = 1
  /\ Len(settled.value.rows) = 1
  /\ detectValueType(settled.value.rows[1].original) = "email"

(***************************************************************************)
(* normalizeEmail applied to one address                                   *)
(***************************************************************************)
MaxLocalTokens == 3
LocalTokens == {"a", "B", "1", ".", "+", "_", "%", "-"}
Domains == {"b.co", "X-1.Y.io"}
AddressInputs ==
  {Join(ts, "") \o "@" \o d : ts \in TuplesUpTo(LocalTokens, MaxLocalTokens), d \in Domains}

\* Called on an address, without an options argument.
EmailAddressInit ==
  /\ CsvIdle /\ PhoneIdle /\ DetectIdle /\ HooksMounted
  /\ NoInvocations /\ BatchMounted /\ HashIdle
  /\ emailArg \in AddressInputs
  /\ optionsArg = Undefined
  /\ emailPc = "ready"
  /\ emailRet = ""

SpecEmailAddress == EmailAddressInit /\ [][EmailNext]_vars

\* C27, as stated: for every email validateEmail accepts, what normalizeEmail
\* returns without an options argument is accepted by validateEmail as well,
\* and the text before its '@' is not empty.
C27_ValidEmailStaysValid ==
  (emailPc = "returned" /\ validateEmail(emailArg).isValid) =>
    /\ validateEmail(emailRet).isValid
    /\ FirstAt(emailRet) > 1

(***************************************************************************)
(* Further properties of the hooks, checked under SpecHooks                *)
(***************************************************************************)
\* C28: in every state of both hooks the result has three empty fields or
\* three non-empty ones; in the second case normalized is the normalized form
\* of an input value that passes validation, and sha256Hash and base64Hash
\* are the hex and Base64 forms of the SHA-256 digest of the stored normalized
\* value.
C28_ResultIsEmptyOrWhole ==
  /\ \/ emailResult = [normalizedEmail |-> "", sha256Hash |-> "", base64Hash |-> ""]
     \/ /\ emailResult.normalizedEmail # ""
        /\ emailResult.sha256Hash # ""
        /\ emailResult.base64Hash # ""
        /\ \E v \in EmailHookInputs :
             /\ validateEmail(v).isValid
             /\ emailResult.normalizedEmail = normalizeEmail(v, Undefined)
        /\ emailResult.sha256Hash = HexStringify(SHA256(emailResult.normalizedEmail))
        /\ emailResult.base64Hash = Base64Stringify(SHA256(emailResult.normalizedEmail))
  /\ \/ phoneResult = [normalizedPhone |-> "", sha256Hash |-> "", base64Hash |-> ""]
     \/ /\ phoneResult.normalizedPhone # ""
        /\ phoneResult.sha256Hash # ""
        /\ phoneResult.base64Hash # ""
        /\ \E v \in PhoneHookInputs :
             /\ validatePhone(v)
             /\ phoneResult.normalizedPhone = normalizePhone(v)
        /\ phoneResult.sha256Hash = HexStringify(SHA256(phoneResult.normalizedPhone))
        /\ phoneResult.base64Hash = Base64Stringify(SHA256(phoneResult.normalizedPhone))

\* Both hooks hold a result while their input no longer passes validation.
C28_Witness ==
  /\ emailResult.normalizedEmail # ""
  /\ ~validateEmail(emailInput).isValid
  /\ phoneResult.normalizedPhone # ""
  /\ ~validatePhone(phoneInput)
  /\ lastOp \in {"setEmail", "setPhoneNumber"}

(***************************************************************************)
(* BatchNormalizer: uploads through the file input and through drops       *)
(***************************************************************************)
BatchFiles == {"a@b.co", "invalid"}

\* part_000 lines 253-259: handleFileUpload on a CSV file, up to the await of
\* processCSV(file), which itself runs up to its await of file.text().
StartUpload(c, f) ==
  /\ invocations[c].pc # "awaiting"
  /\ isProcessing' = TRUE
  /\ batchError' = Null
  /\ processedData' = Null
  /\ invocations' = [invocations EXCEPT ![c] = EnterInvocation(c, f)]
  /\ UNCHANGED <<csvVars, phoneVars, emailVars, detectVars, hookVars, hashVars>>

\* part_000 lines 246-251 and 342-346: a file that is no CSV file.
RefuseFile ==
  /\ batchError' = Str("Please upload a CSV file")
  /\ processedData' = Null
  /\ UNCHANGED <<isProcessing, invocationVars, csvVars, phoneVars, emailVars, detectVars,
                 hookVars, hashVars>>

\* part_000 lines 447-454: the change event of the file input, which is
\* disabled while isProcessing is true.
ChangeCsv(c, f) == ~isProcessing /\ StartUpload(c, f)
ChangeOther == ~isProcessing /\ RefuseFile

\* part_000 lines 330-363: a drop, which calls handleFileUpload whatever
\* isProcessing is.
DropCsv(c, f) == StartUpload(c, f)
DropOther == RefuseFile

\* part_000 lines 259-274: what handleFileUpload does once processCSV has
\* settled as the invocation inv shows.
AfterProcessCSV(inv) ==
  /\ IF inv.settled.status = "fulfilled"
     THEN /\ processedData' = inv.settled.value
          /\ UNCHANGED batchError
     ELSE /\ batchError' = Str(inv.settled.reason.message)
          /\ UNCHANGED processedData
  /\ isProcessing' = FALSE

\* The read of upload c resolves: processCSV and then handleFileUpload run
\* to their ends.
UploadResolves(c) ==
  /\ invocations[c].pc = "awaiting"
  /\ invocations' = [invocations EXCEPT ![c] = ResumeInvocation(invocations[c])]
  /\ AfterProcessCSV(ResumeInvocation(invocations[c]))
  /\ UNCHANGED <<csvVars, phoneVars, emailVars, detectVars, hookVars, hashVars>>

\* The read of upload c rejects.
UploadRejects(c, error) ==
  /\ invocations[c].pc = "awaiting"
  /\ invocations' = [invocations EXCEPT ![c] = FailInvocation(invocations[c], error)]
  /\ AfterProcessCSV(FailInvocation(invocations[c], error))
  /\ UNCHANGED <<csvVars, phoneVars, emailVars, detectVars, hookVars, hashVars>>

BatchNext ==
  \/ \E c \in Invocations, f \in BatchFiles : ChangeCsv(c, f)
  \/ ChangeOther
  \/ \E c \in Invocations, f \in BatchFiles : DropCsv(c, f)
  \/ DropOther
  \/ \E c \in Invocations : UploadResolves(c)
  \/ \E c \in Invocations, error \in ReadErrors : UploadRejects(c, error)

SpecBatch == Init /\ [][BatchNext]_vars

UploadInFlight == \E c \in Invocations : invocations[c].pc = "awaiting"

\* C29, as stated: in every state of BatchNormalizer at most one of error and
\* processedData is not null, also when uploads overlap.
C29_ErrorOrDataNotBoth == ~(batchError # Null /\ processedData # Null)

\* C30, as stated: isProcessing is true in every state in which an upload's
\* processCSV call has not settled, also when uploads overlap.
C30_ProcessingWhileInFlight == UploadInFlight => isProcessing

====
